---- MODULE Spec2Model ----
(***************************************************************************)
(* PixelArgon front end (src/src/main.ts): the editor's AppState, the      *)
(* pointer/keyboard handlers that mutate it, and the asynchronous round    *)
(* trips to the image-processing back end (open_image, apply_edits,        *)
(* get_applied_path, export_image).  Every handler runs to its next await  *)
(* as one atomic step (the JavaScript event loop); each await is a         *)
(* message in flight whose answer may arrive in any order.  The updater    *)
(* and the theme are outside this model.                                   *)
(***************************************************************************)
EXTENDS Integers, Sequences, FiniteSets, TLC

(***************************************************************************)
(* JavaScript numbers.  A number is a fraction n/d in lowest terms, d > 0; *)
(* d = 0 encodes the IEEE-754 specials: 1/0 = +Infinity, -1/0 = -Infinity, *)
(* 0/0 = NaN.  Rounding error of finite doubles and the sign of zero are   *)
(* not modelled (every divisor that can be zero is a non-negative zero     *)
(* under the inputs used here).                                            *)
(***************************************************************************)
RECURSIVE GCD(_, _)
GCD(a, b) == IF b = 0 THEN a ELSE GCD(b, a % b)

Abs(i) == IF i < 0 THEN -i ELSE i

Sgn(i) == IF i > 0 THEN 1 ELSE IF i < 0 THEN -1 ELSE 0

Num(n, d) ==
    IF d = 0 THEN [n |-> Sgn(n), d |-> 0]
    ELSE LET g == GCD(Abs(n), d) IN [n |-> n \div g, d |-> d \div g]

I(i) == [n |-> i, d |-> 1]

NaN == [n |-> 0, d |-> 0]

PosInf == [n |-> 1, d |-> 0]

NegInf == [n |-> -1, d |-> 0]

IsNaN(a) == a.n = 0 /\ a.d = 0

IsFinite(a) == a.d > 0

\* a + b
Add(a, b) ==
    IF IsNaN(a) \/ IsNaN(b) THEN NaN
    ELSE IF a.d = 0 /\ b.d = 0 THEN (IF a.n = b.n THEN a ELSE NaN)
    ELSE IF a.d = 0 THEN a
    ELSE IF b.d = 0 THEN b
    ELSE Num(a.n * b.d + b.n * a.d, a.d * b.d)

Neg(a) == [n |-> -a.n, d |-> a.d]

\* a - b
Sub(a, b) == Add(a, Neg(b))

\* a * b   (0 * Infinity = NaN)
Mul(a, b) == Num(a.n * b.n, a.d * b.d)

Recip(a) == IF a.n < 0 THEN [n |-> -a.d, d |-> -a.n] ELSE [n |-> a.d, d |-> a.n]

\* a / b   (x / 0 = +-Infinity, 0 / 0 = NaN, x / Infinity = 0)
Div(a, b) == Mul(a, Recip(b))

\* a < b   (false when either side is NaN)
Lt(a, b) ==
    /\ ~IsNaN(a)
    /\ ~IsNaN(b)
    /\ IF a.d = 0 /\ b.d = 0 THEN a.n < b.n
       ELSE IF a.d = 0 THEN a.n < 0
       ELSE IF b.d = 0 THEN b.n > 0
       ELSE a.n * b.d < b.n * a.d

\* a <= b
Le(a, b) == ~IsNaN(a) /\ ~IsNaN(b) /\ ~Lt(b, a)

\* Math.max(a, b): NaN when either argument is NaN
MathMax(a, b) == IF IsNaN(a) \/ IsNaN(b) THEN NaN ELSE IF Lt(a, b) THEN b ELSE a

\* Math.min(a, b)
MathMin(a, b) == IF IsNaN(a) \/ IsNaN(b) THEN NaN ELSE IF Lt(b, a) THEN b ELSE a

\* Math.round(a): the nearest integer, halves towards +Infinity
MathRound(a) == IF a.d = 0 THEN a ELSE I((2 * a.n + a.d) \div (2 * a.d))

\* a || b on numbers: b when a is 0 or NaN
OrElse(a, b) == IF a.n = 0 THEN b ELSE a


(***************************************************************************)
(* Values the environment supplies.                                        *)
(***************************************************************************)
Null == "null"

\* the recent-files store when its commands reject
Unavailable == "unavailable"

\* files the user can open, and the temp file get_applied_path names
Paths == {"a.png", "b.png"}

AppliedPaths == {"applied.tmp"}

\* ImageInfo values the back end can answer open_image / apply_edits with
ImageInfos ==
    { [width |-> 4, height |-> 2, data_url |-> "data:4x2"],
      [width |-> 2, height |-> 4, data_url |-> "data:2x4"] }

\* clientWidth / clientHeight of #canvas-container
ContainerSizes == { [w |-> 44, h |-> 44] }

\* sizes of #canvas-container when the fit button is clicked or "1" is typed
ZoomContainers == { [w |-> 44, h |-> 44], [w |-> 41, h |-> 43], [w |-> 40, h |-> 40] }

\* positions of #zoom-slider, in percent
SliderZooms == {12, 100, 450}

\* e.deltaY of wheel events
WheelDeltas == {-100, 0, 100}

\* positions of #bg-tolerance, a slider from 0 to 100
BgTolerances == {0, 100}

\* positions of #pixelate-size and #pixelate-block
BrushSizes == {1, 20}

BlockSizes == {1, 3, 10}

Tools == {"select", "crop", "pixelate", "eyedropper"}

\* pointer positions of paint events, as fractions of the rendered canvas
\* rectangle: (clientX - rect.left) / rect.width, (clientY - rect.top) / rect.height
PaintPoints == { <<Num(1, 4), Num(1, 4)>>, <<Num(3, 4), Num(1, 2)>>, <<Num(3, 2), Num(1, 4)>> }

\* slider positions of #edit-brightness and #edit-contrast
SliderValues == {0, 50}

\* colours pickColor can read from the canvas
Colors == { <<0, 0, 0>>, <<255, 0, 0>> }

\* pixel displacements of a pan drag since its mouse-down
PanDeltas == {0, 10}

\* element under the pointer at mouse-down in the crop tool
CropHandles == {"n", "s", "e", "w", "ne", "nw", "se", "sw"}

CropTargets == CropHandles \cup {"crop-rect", "canvas"}

\* values typed into #crop-width / #crop-height (NaN: the field left empty)
CropFieldValues == { Num(1, 4), I(2), NaN }

\* the ratios of #crop-preset
PresetRatios == { <<1, 1>>, <<4, 5>>, <<16, 9>>, <<9, 16>>, <<3, 2>> }

\* Bounds of the model; each specification below states the ones it uses.
\* Spec: requests and image loads pending at a time, pending edits at a time
MaxInFlight == 1

MaxEdits == 1

\* SpecPaint: strokes held at a time, points of a stroke
MaxStrokes == 2

MaxPoints == 2

\* SpecRequests: requests and image loads pending at a time
MaxOutstanding == 2

\* SpecCrop: crop gestures and preset selections in a run
MaxDrags == 2

\* zoom-in, zoom-out and wheel steps in a behaviour of SpecZoom
MaxZooms == 3

\* the length the recent-files list is cut to
RecentsCap == 10

(***************************************************************************)
(* State.  `state` is the AppState singleton; the remaining variables are  *)
(* the module-level lets of main.ts, the values of the #crop-width and     *)
(* #crop-height fields, and the requests in flight.  `hist` is a history   *)
(* variable: the crop gestures and preset selections made so far, the     *)
(* paths handed to the recent-files store, whether one of its calls        *)
(* rejected, the relative zoom steps made and, where recorded (InitApply), *)
(* the payloads of the apply requests in flight.  `toast` is the message   *)
(* in #toast, without the error text or path it ends with.  `recentFiles`  *)
(* is the list the back end persists and                                   *)
(* `recentReqs` the addToRecents calls between their awaits.               *)
(* index.html is outside the sources: the fields start at                  *)
(* state.targetWidth / state.targetHeight.                                 *)
(***************************************************************************)
VARIABLES state, loadedImage, isDragging, dragStartPan, cropDragMode, cropStartCrop,
          cropInputs, openReqs, imgLoads, applyReqs, exportReqs, hist, toast,
          recentFiles, recentReqs

vars == <<state, loadedImage, isDragging, dragStartPan, cropDragMode, cropStartCrop,
          cropInputs, openReqs, imgLoads, applyReqs, exportReqs, hist, toast,
          recentFiles, recentReqs>>

\* state.currentStroke = null
NullStroke == [points |-> <<>>, radius |-> I(0), stale |-> FALSE]

InitState ==
    [ sourcePath |-> Null, imageWidth |-> 0, imageHeight |-> 0, tool |-> "select",
      zoom |-> I(1), panX |-> 0, panY |-> 0,
      cropX |-> Num(1, 10), cropY |-> Num(1, 10), cropW |-> Num(8, 10), cropH |-> Num(8, 10),
      targetWidth |-> I(800), targetHeight |-> I(600), lockAspect |-> FALSE,
      scaleMode |-> "scale_then_crop",
      grayscale |-> FALSE, brightness |-> I(0), contrast |-> I(0), rotation |-> 0,
      flipH |-> FALSE, flipV |-> FALSE,
      pixelateStrokes |-> <<>>, pixelateRedoStack |-> <<>>,
      pixelateBrushSize |-> 20, pixelateBlockSize |-> 10,
      isPixelatePainting |-> FALSE, currentStroke |-> NullStroke,
      bgEnabled |-> FALSE, bgColor |-> <<0, 0, 0>>, bgTolerance |-> 30 ]

\* the application after construction
InitApp ==
    /\ state = InitState
    /\ loadedImage = Null
    /\ isDragging = FALSE
    /\ dragStartPan = <<0, 0>>
    /\ cropDragMode = Null
    /\ cropStartCrop = [x |-> I(0), y |-> I(0), w |-> I(0), h |-> I(0)]
    /\ cropInputs = [w |-> I(800), h |-> I(600)]
    /\ openReqs = <<>>
    /\ imgLoads = <<>>
    /\ applyReqs = <<>>
    /\ exportReqs = <<>>
    /\ hist \in { [drags |-> 0, opened |-> <<>>, failed |-> FALSE, zooms |-> 0,
                    recording |-> r, sent |-> <<>>] : r \in BOOLEAN }
    /\ toast = Null
    /\ recentReqs = <<>>

\* the store cannot be reached: every get_recent_files call rejects
Init == InitApp /\ recentFiles = Unavailable /\ ~hist.recording

\* as Init, the payloads of the apply requests in flight being recorded in hist
InitApply == InitApp /\ recentFiles = Unavailable /\ hist.recording

\* the store works and holds no path yet
InitRecents == InitApp /\ recentFiles = <<>> /\ ~hist.recording

\* s with its i-th element removed
RemoveAt(s, i) == SubSeq(s, 1, i - 1) \o SubSeq(s, i + 1, Len(s))

\* array.pop(): the array without its last element
Pop(s) == SubSeq(s, 1, Len(s) - 1)

\* the element array.pop() returns
Last(s) == s[Len(s)]


(***************************************************************************)
(* Geometry helpers.                                                       *)
(***************************************************************************)
isRotated(st) == st.rotation = 90 \/ st.rotation = 270

\* the displayed (post-rotation) width and height
displayW(st) == IF isRotated(st) THEN st.imageHeight ELSE st.imageWidth

displayH(st) == IF isRotated(st) THEN st.imageWidth ELSE st.imageHeight

IntMax(a, b) == IF a < b THEN b ELSE a

IntMin(a, b) == IF a < b THEN a ELSE b

\* getCanvasCoords: x = (clientX - rect.left) * (dw / rect.width), result x / dw.
\* The pointer arrives as p = <<fx, fy>> with fx = (clientX - rect.left) / rect.width,
\* so x = fx * dw and the result is (fx * dw) / dw.
getCanvasCoords(st, p) ==
    << Div(Mul(p[1], I(displayW(st))), I(displayW(st))),
       Div(Mul(p[2], I(displayH(st))), I(displayH(st))) >>

\* nx >= 0 && nx <= 1 && ny >= 0 && ny <= 1
inBounds(n) == Le(I(0), n[1]) /\ Le(n[1], I(1)) /\ Le(I(0), n[2]) /\ Le(n[2], I(1))

\* a bug setZoom could have: no upper limit
setZoomNoMax(st, z) == [st EXCEPT !.zoom = MathMax(Num(1, 10), z)]

\* setZoom(z)
setZoom(st, z) == [st EXCEPT !.zoom = MathMax(Num(1, 10), MathMin(I(5), z))]

\* zoomFit() with a loaded image, in a container of size c
zoomFit(st, c) ==
    LET scale == MathMin(MathMin(Div(I(c.w - 40), I(displayW(st))),
                                 Div(I(c.h - 40), I(displayH(st)))), I(1))
    IN  setZoom([st EXCEPT !.panX = 0, !.panY = 0], scale)

(***************************************************************************)
(* Image Sessions: loadImage and applyEdits after their awaits.            *)
(***************************************************************************)
\* loadImage, from the answer of open_image to the creation of the <img>
loadImageOk(st, path, info) ==
    [st EXCEPT !.sourcePath = path,
               !.imageWidth = info.width,
               !.imageHeight = info.height,
               !.rotation = 0,
               !.flipH = FALSE,
               !.flipV = FALSE,
               !.grayscale = FALSE,
               !.brightness = I(0),
               !.contrast = I(0),
               !.pixelateStrokes = <<>>,
               !.pixelateRedoStack = <<>>,
               !.cropX = I(0),
               !.cropY = I(0),
               !.cropW = I(1),
               !.cropH = I(1),
               !.targetWidth = I(info.width),
               !.targetHeight = I(info.height)]

\* applyEdits: the hasEdits test
hasEdits(st) ==
    \/ st.rotation # 0
    \/ st.flipH
    \/ st.flipV
    \/ st.grayscale
    \/ st.brightness # I(0)
    \/ st.contrast # I(0)
    \/ Len(st.pixelateStrokes) > 0

\* the payload of apply_edits
applyPayload(st) ==
    [ source_path |-> st.sourcePath, rotation |-> st.rotation, flip_h |-> st.flipH,
      flip_v |-> st.flipV, grayscale |-> st.grayscale, brightness |-> st.brightness,
      contrast |-> st.contrast, pixelate_strokes |-> st.pixelateStrokes,
      pixelate_block_size |-> st.pixelateBlockSize ]

\* a bug applyEdits could have: the contrast is left out of the reset
applyEditsOkKeepsContrast(st, appliedPath, info) ==
    [st EXCEPT !.sourcePath = appliedPath,
               !.imageWidth = info.width,
               !.imageHeight = info.height,
               !.rotation = 0,
               !.flipH = FALSE,
               !.flipV = FALSE,
               !.grayscale = FALSE,
               !.brightness = I(0),
               !.pixelateStrokes = <<>>,
               !.pixelateRedoStack = <<>>]

\* applyEdits, from the answer of get_applied_path to the creation of the <img>
applyEditsOk(st, appliedPath, info) ==
    [st EXCEPT !.sourcePath = appliedPath,
               !.imageWidth = info.width,
               !.imageHeight = info.height,
               !.rotation = 0,
               !.flipH = FALSE,
               !.flipV = FALSE,
               !.grayscale = FALSE,
               !.brightness = I(0),
               !.contrast = I(0),
               !.pixelateStrokes = <<>>,
               !.pixelateRedoStack = <<>>]

\* a bug doExport could have: the rectangle is sent even when it is the full frame
exportCropAlways(st) ==
    [x |-> st.cropX, y |-> st.cropY, width |-> st.cropW, height |-> st.cropH]

\* a bug doExport could have: the tolerance is sent on the slider's scale
exportBgRemovalPercent(st) ==
    IF st.bgEnabled
    THEN [enabled |-> TRUE, color |-> st.bgColor, tolerance |-> I(st.bgTolerance)]
    ELSE [enabled |-> FALSE, color |-> <<0, 0, 0>>, tolerance |-> NaN]

\* crop: null
NoCrop == [x |-> NaN, y |-> NaN, width |-> NaN, height |-> NaN]

\* the crop field of the export payload
exportCrop(st) ==
    IF Lt(st.cropW, I(1)) \/ Lt(st.cropH, I(1)) \/ Lt(I(0), st.cropX) \/ Lt(I(0), st.cropY)
    THEN [x |-> st.cropX, y |-> st.cropY, width |-> st.cropW, height |-> st.cropH]
    ELSE NoCrop

\* the bg_removal field of the export payload
exportBgRemoval(st) ==
    IF st.bgEnabled
    THEN [enabled |-> TRUE, color |-> st.bgColor, tolerance |-> Div(I(st.bgTolerance), I(100))]
    ELSE [enabled |-> FALSE, color |-> <<0, 0, 0>>, tolerance |-> NaN]

\* the payload of export_image
exportPayload(st, outputPath, format, quality) ==
    [ source_path |-> st.sourcePath, output_path |-> outputPath, output_format |-> format,
      jpeg_quality |-> quality, target_width |-> st.targetWidth,
      target_height |-> st.targetHeight, crop |-> exportCrop(st),
      rotation |-> st.rotation, flip_h |-> st.flipH, flip_v |-> st.flipV,
      grayscale |-> st.grayscale, brightness |-> st.brightness, contrast |-> st.contrast,
      pixelate_strokes |-> st.pixelateStrokes,
      pixelate_block_size |-> st.pixelateBlockSize,
      bg_removal |-> exportBgRemoval(st), mode |-> st.scaleMode ]


(***************************************************************************)
(* Rendering.  The canvas is redrawn from the state by every handler that  *)
(* changes what it shows, so its pixels are a function of the state.       *)
(* `data` maps the pixel index py * dw + px to <<r, g, b, a>>.  The canvas *)
(* transform and the CSS filters are the browser's; the image is drawn     *)
(* here as decoded, which is what renderCanvas does at rotation 0 with no  *)
(* flip and no filter.                                                     *)
(***************************************************************************)
\* the pixel (x, y) of a decoded image
imagePixel(x, y) ==
    << (70 * x + 35 * y) % 256, (20 * x * x + y) % 256,
       (200 - 45 * x + 7 * y) % 256, 255 - 85 * y >>

\* ctx.drawImage(loadedImage, ...) followed by ctx.getImageData(0, 0, dw, dh)
drawImage(dw, dh) == [i \in 0..(dw * dh - 1) |-> imagePixel(i % dw, i \div dw)]

\* the sum of channel ch of data over the pixels idxs
RECURSIVE channelSum(_, _, _)
channelSum(data, idxs, ch) ==
    IF idxs = {} THEN 0
    ELSE LET i == CHOOSE j \in idxs : TRUE
         IN  data[i][ch] + channelSum(data, idxs \ {i}, ch)

\* a bug drawPixelatePreview could have: the mean is truncated
truncatedMean(sum, count) == sum \div count

\* Math.round(sum / count), sum >= 0 and count > 0
roundedMean(sum, count) == (2 * sum + count) \div (2 * count)

\* a bug drawPixelatePreview could have: only the block's first pixel is overwritten
averageBlockCorner(data, dw, b) ==
    LET idxs == {py * dw + px : px \in b.bx..(b.bx2 - 1), py \in b.by..(b.by2 - 1)}
        count == Cardinality(idxs)
    IN  IF count > 0
        THEN [data EXCEPT ![b.by * dw + b.bx] =
                 << (channelSum(data, idxs, 1) + count \div 2) \div count,
                    (channelSum(data, idxs, 2) + count \div 2) \div count,
                    (channelSum(data, idxs, 3) + count \div 2) \div count,
                    (channelSum(data, idxs, 4) + count \div 2) \div count >>]
        ELSE data

\* the body of the block loops: the pixels of [bx, bx2) x [by, by2) are summed and,
\* if there are any, overwritten by their rounded mean
averageBlock(data, dw, b) ==
    LET idxs == {py * dw + px : px \in b.bx..(b.bx2 - 1), py \in b.by..(b.by2 - 1)}
        count == Cardinality(idxs)
    IN  IF count > 0
        THEN [i \in DOMAIN data |->
                 IF i \in idxs
                 THEN << roundedMean(channelSum(data, idxs, 1), count),
                         roundedMean(channelSum(data, idxs, 2), count),
                         roundedMean(channelSum(data, idxs, 3), count),
                         roundedMean(channelSum(data, idxs, 4), count) >>
                 ELSE data[i]]
        ELSE data

\* the values of a loop for (v = lo; v < hi; v += blockSize)
RECURSIVE blockStarts(_, _, _)
blockStarts(lo, hi, blockSize) ==
    IF lo < hi THEN <<lo>> \o blockStarts(lo + blockSize, hi, blockSize) ELSE <<>>

\* x1, y1, x2, y2 of a stroke point
strokeBox(p, radius, dw, dh) ==
    LET cx == MathRound(Mul(p[1], I(dw))).n
        cy == MathRound(Mul(p[2], I(dh))).n
        r == MathRound(Mul(radius, I(IntMax(dw, dh)))).n
    IN  [ x1 |-> IntMax(0, cx - r), y1 |-> IntMax(0, cy - r),
          x2 |-> IntMin(dw, cx + r), y2 |-> IntMin(dh, cy + r) ]

\* the blocks the two loops over bx and by visit, in their order
RECURSIVE blocksFrom(_, _, _, _)
blocksFrom(xs, ys, box, blockSize) ==
    IF xs = <<>> THEN <<>>
    ELSE [k \in 1..Len(ys) |->
             [ bx |-> Head(xs), by |-> ys[k],
               bx2 |-> IntMin(Head(xs) + blockSize, box.x2),
               by2 |-> IntMin(ys[k] + blockSize, box.y2) ]]
         \o blocksFrom(Tail(xs), ys, box, blockSize)

blocks(box, blockSize) ==
    blocksFrom(blockStarts(box.x1, box.x2, blockSize),
               blockStarts(box.y1, box.y2, blockSize), box, blockSize)

\* the block loops run over the blocks bs, each reading what the ones before wrote
RECURSIVE averageBlocks(_, _, _)
averageBlocks(data, dw, bs) ==
    IF bs = <<>> THEN data
    ELSE averageBlocks(averageBlock(data, dw, Head(bs)), dw, Tail(bs))

\* for (const [nx, ny] of stroke.points)
RECURSIVE drawPoints(_, _, _, _, _, _)
drawPoints(data, dw, dh, points, radius, blockSize) ==
    IF points = <<>> THEN data
    ELSE drawPoints(averageBlocks(data, dw,
                        blocks(strokeBox(Head(points), radius, dw, dh), blockSize)),
                    dw, dh, Tail(points), radius, blockSize)

\* drawPixelatePreview: for (const stroke of state.pixelateStrokes)
RECURSIVE drawPixelatePreview(_, _, _, _, _)
drawPixelatePreview(data, dw, dh, strokes, blockSize) ==
    IF strokes = <<>> THEN data
    ELSE drawPixelatePreview(
             drawPoints(data, dw, dh, Head(strokes).points, Head(strokes).radius, blockSize),
             dw, dh, Tail(strokes), blockSize)

\* renderCanvas with an image loaded: the pixels of #main-canvas
renderCanvas(st) ==
    LET dw == displayW(st)
        dh == displayH(st)
    IN  IF Len(st.pixelateStrokes) > 0
        THEN drawPixelatePreview(drawImage(dw, dh), dw, dh, st.pixelateStrokes,
                                 st.pixelateBlockSize)
        ELSE drawImage(dw, dh)

(***************************************************************************)
(* Pixelation strokes.  A stroke is [points, radius]; its field stale is a *)
(* history field: the stroke was started in an Image Session that has      *)
(* since been replaced.                                                    *)
(***************************************************************************)
\* onCanvasMouseDown, pixelate tool, start point n inside the image
startStroke(st, n) ==
    [st EXCEPT !.isPixelatePainting = TRUE,
               !.currentStroke =
                   [ points |-> <<n>>,
                     radius |-> Div(I(st.pixelateBrushSize),
                                    I(IntMax(displayW(st), displayH(st)))),
                     stale |-> FALSE ],
               !.pixelateRedoStack = <<>>]

\* a bug the live preview could have: the stroke pushed for rendering is not popped
appendPointNoPop(st, n) ==
    LET pushed == [st EXCEPT !.currentStroke.points = Append(@, n)]
    IN  [pushed EXCEPT !.pixelateStrokes = Append(@, pushed.currentStroke)]

\* onCanvasMouseMove, pixelate tool, point n inside the image: the point is pushed;
\* the live preview pushes the stroke on pixelateStrokes, renders, and pops it again
appendPoint(st, n) ==
    LET pushed == [st EXCEPT !.currentStroke.points = Append(@, n)]
        preview == [pushed EXCEPT !.pixelateStrokes = Append(@, pushed.currentStroke)]
    IN  [preview EXCEPT !.pixelateStrokes = Pop(@)]

\* onCanvasMouseUp: the stroke in progress is committed
commitStroke(st) ==
    IF st.isPixelatePainting /\ st.currentStroke # NullStroke
    THEN [st EXCEPT !.pixelateStrokes = Append(@, st.currentStroke),
                    !.currentStroke = NullStroke,
                    !.isPixelatePainting = FALSE]
    ELSE st

\* a bug undoStroke could have: the stroke goes to the bottom of the redo stack
undoStrokeBottom(st) ==
    IF Len(st.pixelateStrokes) > 0
    THEN [st EXCEPT !.pixelateRedoStack = <<Last(st.pixelateStrokes)>> \o @,
                    !.pixelateStrokes = Pop(@)]
    ELSE st

undoStroke(st) ==
    IF Len(st.pixelateStrokes) > 0
    THEN [st EXCEPT !.pixelateRedoStack = Append(@, Last(st.pixelateStrokes)),
                    !.pixelateStrokes = Pop(@)]
    ELSE st

redoStroke(st) ==
    IF Len(st.pixelateRedoStack) > 0
    THEN [st EXCEPT !.pixelateStrokes = Append(@, Last(st.pixelateRedoStack)),
                    !.pixelateRedoStack = Pop(@)]
    ELSE st

(***************************************************************************)
(* Crop rectangle.                                                         *)
(***************************************************************************)
\* the compass letters of a handle name: mode.includes(c)
includes(mode, c) ==
    CASE mode = "n" -> c = "n"
      [] mode = "s" -> c = "s"
      [] mode = "e" -> c = "e"
      [] mode = "w" -> c = "w"
      [] mode = "ne" -> c \in {"n", "e"}
      [] mode = "nw" -> c \in {"n", "w"}
      [] mode = "se" -> c \in {"s", "e"}
      [] mode = "sw" -> c \in {"s", "w"}
      [] OTHER -> FALSE

\* handleCropDrag(dx, dy) in drag mode `mode`, from the snapshot `start` taken at
\* mouse-down
handleCropDrag(st, mode, start, dx, dy) ==
    LET x1 == IF mode = "move" \/ includes(mode, "w") THEN Add(start.x, dx) ELSE start.x
        w1 == IF mode = "move" THEN start.w
              ELSE LET ww == IF includes(mode, "w") THEN Sub(start.w, dx) ELSE start.w
                   IN  IF includes(mode, "e") THEN Add(ww, dx) ELSE ww
        y1 == IF mode = "move" \/ includes(mode, "n") THEN Add(start.y, dy) ELSE start.y
        h1 == IF mode = "move" THEN start.h
              ELSE LET hh == IF includes(mode, "n") THEN Sub(start.h, dy) ELSE start.h
                   IN  IF includes(mode, "s") THEN Add(hh, dy) ELSE hh
        locked == st.lockAspect /\ mode # "move"
        aspect == Div(st.targetWidth, st.targetHeight)
        horizontal == includes(mode, "e") \/ includes(mode, "w")
        h2 == IF locked /\ horizontal THEN Div(w1, aspect) ELSE h1
        w2 == IF locked /\ ~horizontal THEN Mul(h1, aspect) ELSE w1
        w == MathMax(Num(2, 100), MathMin(I(1), w2))
        h == MathMax(Num(2, 100), MathMin(I(1), h2))
        x == MathMax(I(0), MathMin(Sub(I(1), w), x1))
        y == MathMax(I(0), MathMin(Sub(I(1), h), y1))
    IN  [st EXCEPT !.cropX = x, !.cropY = y, !.cropW = w, !.cropH = h]

\* onCropSizeChange with the values of #crop-width and #crop-height
onCropSizeChange(st, fw, fh) ==
    [st EXCEPT !.targetWidth = OrElse(fw, I(800)),
               !.targetHeight = OrElse(fh, I(600))]

\* pickColor's test x >= 0 && x < canvas.width && y >= 0 && y < canvas.height, with
\* x = Math.round(fx * canvas.width), y likewise
insideCanvas(st, p) ==
    LET x == MathRound(Mul(p[1], I(displayW(st))))
        y == MathRound(Mul(p[2], I(displayH(st))))
    IN  /\ Le(I(0), x) /\ Lt(x, I(displayW(st)))
        /\ Le(I(0), y) /\ Lt(y, I(displayH(st)))

\* pickColor: inside the canvas the pixel's colour c becomes bgColor
pickColor(st, p, c) ==
    IF insideCanvas(st, p) THEN [st EXCEPT !.bgColor = c] ELSE st

\* onCropPresetChange for a ratio preset <<w, h>>, #crop-width holding fw
onCropPresetChange(st, preset, fw) ==
    LET w == preset[1]
        h == preset[2]
        tw == OrElse(fw, I(w * 100))
        th == MathRound(Mul(tw, Div(I(h), I(w))))
        aspect == Div(I(w), I(h))
        wide == Lt(aspect, Div(st.cropW, st.cropH))
        cw == IF wide THEN Mul(st.cropH, aspect) ELSE st.cropW
        ch == IF wide THEN st.cropH ELSE Div(st.cropW, aspect)
    IN  [st EXCEPT !.targetWidth = tw,
                   !.targetHeight = th,
                   !.lockAspect = TRUE,
                   !.cropW = cw,
                   !.cropH = ch,
                   !.cropX = MathMin(st.cropX, Sub(I(1), cw)),
                   !.cropY = MathMin(st.cropY, Sub(I(1), ch))]


(***************************************************************************)
(* Actions: one per event handler, or per continuation of an async         *)
(* function after an await.                                                *)
(***************************************************************************)
gesture == <<isDragging, dragStartPan, cropDragMode, cropStartCrop>>

inflight == <<openReqs, imgLoads, applyReqs, exportReqs>>

\* the recent-files store and the addToRecents calls in progress
recents == <<recentFiles, recentReqs>>

\* requests awaiting their answer and images awaiting onload
Pending ==
    Len(openReqs) + Len(imgLoads) + Len(applyReqs) + Len(exportReqs) + Len(recentReqs)

\* history: a new Image Session begins; a stroke still in progress predates it
newSession(st) ==
    [st EXCEPT !.currentStroke.stale = (st.currentStroke # NullStroke)]

\* a handler that only assigns to state
Adjust(st) ==
    /\ state' = st
    /\ state' # state
    /\ UNCHANGED <<recents, loadedImage, gesture, cropInputs, inflight, hist, toast>>

\* a tool button is clicked
SetTool(t) == Adjust([state EXCEPT !.tool = t])

\* loadImage(path) up to its await of open_image (file dialog, drop, recents list)
LoadImage(path) ==
    /\ openReqs' = Append(openReqs, path)
    /\ UNCHANGED <<recents, state, loadedImage, gesture, cropInputs, imgLoads, applyReqs,
                   exportReqs, hist, toast>>

\* files.filter(f => f !== path)
RECURSIVE without(_, _)
without(files, path) ==
    IF files = <<>> THEN <<>>
    ELSE IF files[1] = path THEN without(Tail(files), path)
    ELSE <<files[1]>> \o without(Tail(files), path)

\* files.slice(0, 10) when files.length > 10
capped(files) == IF Len(files) > RecentsCap THEN SubSeq(files, 1, RecentsCap) ELSE files

\* addToRecents between its two awaits: the list to write back
unshifted(files, path) == capped(<<path>> \o without(files, path))

\* addToRecents up to its first await: get_recent_files is in flight.  A call
\* to a store that cannot be reached rejects into the empty catch block, which
\* changes nothing, so it is not kept.
addToRecents(path) ==
    IF recentFiles = Unavailable THEN recentReqs
    ELSE Append(recentReqs, [path |-> path, phase |-> "get", files |-> <<>>])

\* history: the distinct paths handed to a working store, the latest first
lastOpened(path, opened) ==
    IF recentFiles = Unavailable THEN opened
    ELSE capped(<<path>> \o without(opened, path))

\* get_recent_files resolves: the list is rebuilt and set_recent_files sent
GetRecentFilesOk(k) ==
    /\ k \in DOMAIN recentReqs
    /\ recentReqs[k].phase = "get"
    /\ recentReqs' = [recentReqs EXCEPT ![k] =
           [@ EXCEPT !.phase = "set",
                     !.files = unshifted(recentFiles, recentReqs[k].path)]]
    /\ UNCHANGED <<state, loadedImage, gesture, cropInputs, inflight, hist, toast,
                   recentFiles>>

\* set_recent_files resolves: the store holds the list that was sent
SetRecentFilesOk(k) ==
    /\ k \in DOMAIN recentReqs
    /\ recentReqs[k].phase = "set"
    /\ recentFiles' = recentReqs[k].files
    /\ recentReqs' = RemoveAt(recentReqs, k)
    /\ UNCHANGED <<state, loadedImage, gesture, cropInputs, inflight, hist, toast>>

\* either call rejects: addToRecents' empty catch block
RecentFilesFail(k) ==
    /\ k \in DOMAIN recentReqs
    /\ recentReqs' = RemoveAt(recentReqs, k)
    /\ hist' = [hist EXCEPT !.failed = TRUE]
    /\ UNCHANGED <<state, loadedImage, gesture, cropInputs, inflight, toast, recentFiles>>

\* open_image resolves with info: the rest of loadImage's try block
OpenImageOk(i, info) ==
    /\ i \in DOMAIN openReqs
    /\ state' = newSession(loadImageOk(state, openReqs[i], info))
    /\ cropInputs' = [w |-> I(info.width), h |-> I(info.height)]
    /\ imgLoads' = Append(imgLoads, [info |-> info, kind |-> "open"])
    /\ openReqs' = RemoveAt(openReqs, i)
    /\ recentReqs' = addToRecents(openReqs[i])
    /\ hist' = [hist EXCEPT !.opened = lastOpened(openReqs[i], @)]
    /\ UNCHANGED <<recentFiles, loadedImage, gesture, applyReqs, exportReqs, toast>>

\* a bug loadImage could have: a failed open closes the image that was open
OpenImageFailCloses(i) ==
    /\ i \in DOMAIN openReqs
    /\ openReqs' = RemoveAt(openReqs, i)
    /\ state' = [state EXCEPT !.sourcePath = Null]
    /\ loadedImage' = Null
    /\ toast' = "Failed to open image"
    /\ UNCHANGED <<recents, gesture, cropInputs, imgLoads, applyReqs, exportReqs, hist>>

\* open_image rejects: loadImage's catch block (a toast)
OpenImageFail(i) ==
    /\ i \in DOMAIN openReqs
    /\ openReqs' = RemoveAt(openReqs, i)
    /\ toast' = "Failed to open image"
    /\ UNCHANGED <<recents, state, loadedImage, gesture, cropInputs, imgLoads, applyReqs,
                   exportReqs, hist>>

\* img.onload of an image created by loadImage (zoomFit, in a container of size c)
\* or by applyEdits
ImgOnload(j, c) ==
    /\ j \in DOMAIN imgLoads
    /\ loadedImage' = imgLoads[j].info.data_url
    /\ state' = IF imgLoads[j].kind = "open" THEN zoomFit(state, c) ELSE state
    /\ imgLoads' = RemoveAt(imgLoads, j)
    /\ UNCHANGED <<recents, gesture, cropInputs, openReqs, applyReqs, exportReqs, hist, toast>>

\* a zoom step relative to the current zoom, counted in hist
ZoomBy(factor) ==
    /\ state' = setZoom(state, Mul(state.zoom, factor))
    /\ hist' = [hist EXCEPT !.zooms = @ + 1]
    /\ UNCHANGED <<recents, loadedImage, gesture, cropInputs, inflight, toast>>

\* #btn-zoom-in
ZoomIn == ZoomBy(Num(5, 4))

\* #btn-zoom-out: state.zoom / 1.25
ZoomOut == ZoomBy(Recip(Num(5, 4)))

\* onCanvasWheel
CanvasWheel(deltaY) == ZoomBy(IF deltaY > 0 THEN Num(9, 10) ELSE Num(11, 10))

\* #zoom-slider is moved to v
ZoomSlider(v) == Adjust(setZoom(state, Div(I(v), I(100))))

\* #btn-100, or the key "2"
Zoom100 == Adjust(setZoom(state, I(1)))

\* #btn-fit, or the key "1", in a container of size c
ZoomFit(c) == loadedImage # Null /\ Adjust(zoomFit(state, c))

\* #pixelate-size is moved to v
SetBrushSize(v) == Adjust([state EXCEPT !.pixelateBrushSize = v])

\* #pixelate-block is moved to v
SetBlockSize(v) == Adjust([state EXCEPT !.pixelateBlockSize = v])

\* the #bg-enabled checkbox changes
SetBgEnabled == Adjust([state EXCEPT !.bgEnabled = ~@])

\* #bg-tolerance is moved to v
SetBgTolerance(v) == Adjust([state EXCEPT !.bgTolerance = v])

ToggleGrayscale == Adjust([state EXCEPT !.grayscale = ~@])

SetBrightness(v) == Adjust([state EXCEPT !.brightness = Div(I(v), I(100))])

SetContrast(v) == Adjust([state EXCEPT !.contrast = Div(I(v), I(100))])

\* a bug the rotate-left handler could have: no wrap below 0
RotateLeftNoWrap == Adjust([state EXCEPT !.rotation = @ - 90])

RotateLeft == Adjust([state EXCEPT !.rotation = (@ - 90 + 360) % 360])

RotateRight == Adjust([state EXCEPT !.rotation = (@ + 90) % 360])

FlipH == Adjust([state EXCEPT !.flipH = ~@])

FlipV == Adjust([state EXCEPT !.flipV = ~@])

\* the #lock-aspect checkbox changes
SetLockAspect == Adjust([state EXCEPT !.lockAspect = ~@])

\* a value v is entered in #crop-width (f = "w") or #crop-height (f = "h")
TypeCropSize(f, v) ==
    /\ cropInputs' = [cropInputs EXCEPT ![f] = v]
    /\ cropInputs' # cropInputs
    /\ state' = onCropSizeChange(state, cropInputs'.w, cropInputs'.h)
    /\ UNCHANGED <<recents, loadedImage, gesture, inflight, hist, toast>>

\* #crop-preset changes to a ratio
CropPreset(preset) ==
    /\ state' = onCropPresetChange(state, preset, cropInputs.w)
    /\ cropInputs' = [cropInputs EXCEPT !.h = state'.targetHeight]
    /\ hist' = [hist EXCEPT !.drags = @ + 1]
    /\ UNCHANGED <<recents, loadedImage, gesture, inflight, toast>>

\* #crop-preset changes to "free"
CropPresetFree ==
    /\ state.lockAspect
    /\ Adjust([state EXCEPT !.lockAspect = FALSE])

(***************************************************************************)
(* Canvas mouse handlers, one action per tool branch.                      *)
(***************************************************************************)
\* onCanvasMouseDown, select tool: a pan drag starts
MouseDownSelect ==
    /\ loadedImage # Null
    /\ state.tool = "select"
    /\ isDragging' = TRUE
    /\ dragStartPan' = <<state.panX, state.panY>>
    /\ UNCHANGED <<recents, state, loadedImage, cropDragMode, cropStartCrop, cropInputs,
                   inflight, hist, toast>>

\* onCanvasMouseDown, pixelate tool, pointer at p
MouseDownPixelate(p) ==
    /\ loadedImage # Null
    /\ state.tool = "pixelate"
    /\ inBounds(getCanvasCoords(state, p))
    /\ state' = startStroke(state, getCanvasCoords(state, p))
    /\ UNCHANGED <<recents, loadedImage, gesture, cropInputs, inflight, hist, toast>>

\* onCanvasMouseDown, eyedropper tool, pointer at p over a pixel of colour c
MouseDownEyedropper(p, c) ==
    /\ loadedImage # Null
    /\ state.tool = "eyedropper"
    /\ state' = pickColor(state, p, c)
    /\ toast' = IF insideCanvas(state, p) THEN "Color picked" ELSE toast
    /\ UNCHANGED <<recents, loadedImage, gesture, cropInputs, inflight, hist>>

\* onCanvasMouseDown, crop tool, on a handle or on the rectangle's body (a click
\* elsewhere returns at once)
MouseDownCrop(target) ==
    /\ loadedImage # Null
    /\ state.tool = "crop"
    /\ target \in CropHandles \cup {"crop-rect"}
    /\ cropDragMode' = IF target \in CropHandles THEN target ELSE "move"
    /\ cropStartCrop' = [x |-> state.cropX, y |-> state.cropY,
                         w |-> state.cropW, h |-> state.cropH]
    /\ hist' = [hist EXCEPT !.drags = @ + 1]
    /\ UNCHANGED <<recents, state, loadedImage, isDragging, dragStartPan, cropInputs, inflight,
                   toast>>

\* onCanvasMouseMove while panning, d pixels from the mouse-down position
MouseMovePan(d) ==
    /\ state.tool = "select"
    /\ isDragging
    /\ Adjust([state EXCEPT !.panX = dragStartPan[1] + d[1],
                            !.panY = dragStartPan[2] + d[2]])

\* a bug onCanvasMouseMove could have: the point is pushed wherever the pointer is
MouseMovePaintUnchecked(p) ==
    /\ state.tool = "pixelate"
    /\ state.isPixelatePainting
    /\ state.currentStroke # NullStroke
    /\ Adjust(appendPoint(state, getCanvasCoords(state, p)))

\* onCanvasMouseMove while painting, pointer at p inside the image (outside it
\* nothing is pushed)
MouseMovePaint(p) ==
    /\ state.tool = "pixelate"
    /\ state.isPixelatePainting
    /\ state.currentStroke # NullStroke
    /\ inBounds(getCanvasCoords(state, p))
    /\ Adjust(appendPoint(state, getCanvasCoords(state, p)))

\* onCanvasMouseMove while dragging the crop rectangle; dx, dy are the pointer's
\* displacement since mouse-down as fractions of the canvas rectangle
MouseMoveCrop(dx, dy) ==
    /\ state.tool = "crop"
    /\ cropDragMode # Null
    /\ Adjust(handleCropDrag(state, cropDragMode, cropStartCrop, dx, dy))

\* a bug onCanvasMouseUp could have: the stroke is committed only under the
\* pixelate tool
MouseUpOwnToolOnly ==
    /\ isDragging' = FALSE
    /\ state' = IF state.tool = "pixelate" THEN commitStroke(state) ELSE state
    /\ cropDragMode' = Null
    /\ <<isDragging', state', cropDragMode'>> # <<isDragging, state, cropDragMode>>
    /\ UNCHANGED <<recents, loadedImage, dragStartPan, cropStartCrop, cropInputs, inflight,
                   hist, toast>>

\* onCanvasMouseUp (mouseup and mouseleave)
MouseUp ==
    /\ isDragging' = FALSE
    /\ state' = commitStroke(state)
    /\ cropDragMode' = Null
    /\ <<isDragging', state', cropDragMode'>> # <<isDragging, state, cropDragMode>>
    /\ UNCHANGED <<recents, loadedImage, dragStartPan, cropStartCrop, cropInputs, inflight, hist, toast>>

\* undoStroke (button or Ctrl+Z)
UndoStroke == Adjust(undoStroke(state))

\* redoStroke (button or Ctrl+Shift+Z)
RedoStroke == Adjust(redoStroke(state))

(***************************************************************************)
(* applyEdits.                                                             *)
(***************************************************************************)
NoInfo == [width |-> 0, height |-> 0, data_url |-> Null]

\* history: a request leaves with payload p; request i is answered for good
recordSent(h, p) == IF h.recording THEN [h EXCEPT !.sent = Append(@, p)] ELSE h

forgetSent(h, i) == IF h.recording THEN [h EXCEPT !.sent = RemoveAt(@, i)] ELSE h

\* applyEdits up to its await of apply_edits, invoked with applyPayload(state)
ApplyEdits ==
    /\ state.sourcePath # Null
    /\ hasEdits(state)
    /\ applyReqs' = Append(applyReqs, [phase |-> "apply_edits", info |-> NoInfo])
    /\ hist' = recordSent(hist, applyPayload(state))
    /\ UNCHANGED <<recents, state, loadedImage, gesture, cropInputs, openReqs, imgLoads,
                   exportReqs, toast>>

\* applyEdits with nothing to apply: a toast
ApplyNothing ==
    /\ state.sourcePath # Null
    /\ ~hasEdits(state)
    /\ toast' = "No adjustments to apply"
    /\ UNCHANGED <<recents, state, loadedImage, gesture, cropInputs, inflight, hist>>

\* apply_edits resolves with info: applyEdits awaits get_applied_path
ApplyEditsOk(i, info) ==
    /\ i \in DOMAIN applyReqs
    /\ applyReqs[i].phase = "apply_edits"
    /\ applyReqs' = [applyReqs EXCEPT ![i].phase = "get_applied_path", ![i].info = info]
    /\ UNCHANGED <<recents, state, loadedImage, gesture, cropInputs, openReqs, imgLoads,
                   exportReqs, hist, toast>>

\* a bug applyEdits could have: the adjustments are reset before the request is
\* known to have succeeded
ApplyEditsFailResets(i) ==
    /\ i \in DOMAIN applyReqs
    /\ applyReqs[i].phase = "apply_edits"
    /\ applyReqs' = RemoveAt(applyReqs, i)
    /\ state' = [state EXCEPT !.rotation = 0, !.flipH = FALSE, !.flipV = FALSE,
                              !.grayscale = FALSE, !.brightness = I(0),
                              !.contrast = I(0)]
    /\ toast' = "Apply failed"
    /\ hist' = forgetSent(hist, i)
    /\ UNCHANGED <<recents, loadedImage, gesture, cropInputs, openReqs, imgLoads,
                   exportReqs>>

\* apply_edits rejects: applyEdits's catch block (a toast)
ApplyEditsFail(i) ==
    /\ i \in DOMAIN applyReqs
    /\ applyReqs[i].phase = "apply_edits"
    /\ applyReqs' = RemoveAt(applyReqs, i)
    /\ toast' = "Apply failed"
    /\ hist' = forgetSent(hist, i)
    /\ UNCHANGED <<recents, state, loadedImage, gesture, cropInputs, openReqs, imgLoads,
                   exportReqs>>

\* get_applied_path resolves with path: the rest of applyEdits's try block
GetAppliedPathOk(i, path) ==
    /\ i \in DOMAIN applyReqs
    /\ applyReqs[i].phase = "get_applied_path"
    /\ state' = newSession(applyEditsOk(state, path, applyReqs[i].info))
    /\ imgLoads' = Append(imgLoads, [info |-> applyReqs[i].info, kind |-> "apply"])
    /\ applyReqs' = RemoveAt(applyReqs, i)
    /\ toast' = "Adjustments applied"
    /\ hist' = forgetSent(hist, i)
    /\ UNCHANGED <<recents, loadedImage, gesture, cropInputs, openReqs, exportReqs>>

\* get_applied_path rejects: applyEdits's catch block (a toast)
GetAppliedPathFail(i) ==
    /\ i \in DOMAIN applyReqs
    /\ applyReqs[i].phase = "get_applied_path"
    /\ applyReqs' = RemoveAt(applyReqs, i)
    /\ toast' = "Apply failed"
    /\ hist' = forgetSent(hist, i)
    /\ UNCHANGED <<recents, state, loadedImage, gesture, cropInputs, openReqs, imgLoads,
                   exportReqs>>

(***************************************************************************)
(* Export.                                                                 *)
(***************************************************************************)
ExportFormats == {"png", "jpeg"}

\* values of the #jpeg-quality slider
JpegQualities == {90}

OutputPaths == {"out.png"}

\* showExportModal (the Export button or Ctrl+S, both need a source path) and the
\* modal's confirm button: doExport up to its await of the save dialog
DoExport(format, quality) ==
    /\ state.sourcePath # Null
    /\ exportReqs' = Append(exportReqs, [phase |-> "dialog", format |-> format,
                                         quality |-> quality])
    /\ UNCHANGED <<recents, state, loadedImage, gesture, cropInputs, openReqs, imgLoads,
                   applyReqs, hist, toast>>

\* the save dialog is dismissed: doExport returns
DialogSaveCancel(i) ==
    /\ i \in DOMAIN exportReqs
    /\ exportReqs[i].phase = "dialog"
    /\ exportReqs' = RemoveAt(exportReqs, i)
    /\ UNCHANGED <<recents, state, loadedImage, gesture, cropInputs, openReqs, imgLoads,
                   applyReqs, hist, toast>>

\* the save dialog answers outputPath: export_image is invoked with
\* exportPayload(state, outputPath, format, quality), read from the state as it is now
DialogSaveChoose(i, outputPath) ==
    /\ i \in DOMAIN exportReqs
    /\ exportReqs[i].phase = "dialog"
    /\ exportReqs' = [exportReqs EXCEPT ![i].phase = "export_image"]
    /\ UNCHANGED <<recents, state, loadedImage, gesture, cropInputs, openReqs, imgLoads,
                   applyReqs, hist, toast>>

\* the payload DialogSaveChoose(i, outputPath) hands to export_image
exportRequest(i, outputPath) ==
    exportPayload(state, outputPath, exportReqs[i].format, exportReqs[i].quality)

\* a bug doExport could have: a finished export resets the strokes and the rotation
ExportOkResets(i) ==
    /\ i \in DOMAIN exportReqs
    /\ exportReqs[i].phase = "export_image"
    /\ exportReqs' = RemoveAt(exportReqs, i)
    /\ state' = [state EXCEPT !.rotation = 0, !.pixelateStrokes = <<>>,
                              !.pixelateRedoStack = <<>>]
    /\ toast' = "Exported"
    /\ UNCHANGED <<recents, loadedImage, gesture, cropInputs, openReqs, imgLoads,
                   applyReqs, hist>>

\* export_image resolves: a toast
ExportOk(i) ==
    /\ i \in DOMAIN exportReqs
    /\ exportReqs[i].phase = "export_image"
    /\ exportReqs' = RemoveAt(exportReqs, i)
    /\ toast' = "Exported"
    /\ UNCHANGED <<recents, state, loadedImage, gesture, cropInputs, openReqs, imgLoads,
                   applyReqs, hist>>

\* export_image rejects: doExport's catch block (a toast)
ExportFail(i) ==
    /\ i \in DOMAIN exportReqs
    /\ exportReqs[i].phase = "export_image"
    /\ exportReqs' = RemoveAt(exportReqs, i)
    /\ toast' = "Export failed"
    /\ UNCHANGED <<recents, state, loadedImage, gesture, cropInputs, openReqs, imgLoads,
                   applyReqs, hist>>

(***************************************************************************)
(* Specifications.  The handlers above carry no bound; each specification  *)
(* guards them with the bounds it explores.                                *)
(*   Spec         sessions, adjustments, strokes and applyEdits/loadImage; *)
(*   SpecRequests the round trips of loadImage, applyEdits and doExport;   *)
(*   SpecPaint    the paint gesture with undo and redo;                    *)
(*   SpecCrop     the crop rectangle under every handle, preset and lock;  *)
(*   SpecSession  a crop gesture followed by loadImage or applyEdits;       *)
(*   SpecRecents  loadImage and addToRecents against a working store;      *)
(*   SpecZoom     the zoom controls;                                       *)
(*   SpecExport   doExport with a crop rectangle and a colour key;         *)
(*   SpecRender   the canvas with a single stroke;                         *)
(*   SpecGesture  pan, crop and paint gestures across tool changes;        *)
(*   SpecApply    applyEdits overlapping with edits and with loadImage.    *)
(* The recent-files store works in SpecRecents and rejects every call in   *)
(* the others.                                                             *)
(***************************************************************************)
\* the number of pending edits: adjustments off their defaults and strokes held
\* (applied, undone or in progress)
pendingEdits(st) ==
    (IF st.rotation # 0 THEN 1 ELSE 0) + (IF st.flipH THEN 1 ELSE 0)
    + (IF st.flipV THEN 1 ELSE 0) + (IF st.grayscale THEN 1 ELSE 0)
    + (IF st.brightness # I(0) THEN 1 ELSE 0) + (IF st.contrast # I(0) THEN 1 ELSE 0)
    + Len(st.pixelateStrokes) + Len(st.pixelateRedoStack)
    + (IF st.currentStroke # NullStroke THEN 1 ELSE 0)

\* the steps of loadImage, at most n requests and image loads pending
Opening(paths, n) ==
    \/ \E path \in paths : Pending < n /\ LoadImage(path)
    \/ \E i \in 1..n, info \in ImageInfos : OpenImageOk(i, info)
    \/ \E i \in 1..n : OpenImageFail(i)
    \/ \E j \in 1..n, c \in ContainerSizes : ImgOnload(j, c)

\* the steps of addToRecents after its start in loadImage
Remembering(n) ==
    \/ \E k \in 1..n : GetRecentFilesOk(k)
    \/ \E k \in 1..n : SetRecentFilesOk(k)
    \/ \E k \in 1..n : RecentFilesFail(k)

\* the steps of applyEdits
Applying(n) ==
    \/ Pending < n /\ ApplyEdits
    \/ ApplyNothing
    \/ \E i \in 1..n, info \in ImageInfos : ApplyEditsOk(i, info)
    \/ \E i \in 1..n : ApplyEditsFail(i)
    \/ \E i \in 1..n, path \in AppliedPaths : GetAppliedPathOk(i, path)
    \/ \E i \in 1..n : GetAppliedPathFail(i)

\* the steps of doExport
Exporting(n) ==
    \/ \E format \in ExportFormats, quality \in JpegQualities :
           Pending < n /\ DoExport(format, quality)
    \/ \E i \in 1..n : DialogSaveCancel(i)
    \/ \E i \in 1..n, outputPath \in OutputPaths : DialogSaveChoose(i, outputPath)
    \/ \E i \in 1..n : ExportOk(i)
    \/ \E i \in 1..n : ExportFail(i)

\* after the step at most n edits are pending
Within(n) == pendingEdits(state') <= n

\* the edit controls, at most n edits pending
Editing(n) ==
    \/ ToggleGrayscale /\ Within(n)
    \/ \E v \in SliderValues : SetBrightness(v) /\ Within(n)
    \/ \E v \in SliderValues : SetContrast(v) /\ Within(n)
    \/ RotateLeft /\ Within(n)
    \/ RotateRight /\ Within(n)
    \/ FlipH /\ Within(n)
    \/ FlipV /\ Within(n)

\* strokes started at a point of `starts`, committed, undone and redone, at most n
\* edits pending
Stroking(starts, n) ==
    \/ \E p \in starts : MouseDownPixelate(p) /\ Within(n)
    \/ MouseUp
    \/ UndoStroke
    \/ RedoStroke

\* the paint gesture with undo and redo: strokes of at most m points, the pointer
\* moving over the points of `moves`
Painting(starts, moves, n, m) ==
    \/ Stroking(starts, n)
    \/ \E p \in moves :
           /\ Len(state.currentStroke.points) < m
           /\ MouseMovePaint(p)

\* crop gestures started on `targets`, the pointer displaced by `deltas`; at most n
\* gestures and preset selections in a run
Dragging(targets, deltas, n) ==
    \/ \E target \in targets : hist.drags < n /\ MouseDownCrop(target)
    \/ \E d \in deltas : MouseMoveCrop(d[1], d[2])
    \/ MouseUp

\* the crop controls: the lock checkbox, the width field and the presets
Framing(presets, n) ==
    \/ SetLockAspect
    \/ \E v \in CropFieldValues : TypeCropSize("w", v)
    \/ \E preset \in presets : hist.drags < n /\ CropPreset(preset)
    \/ CropPresetFree

\* paint position of Spec
CoarsePoints == { <<Num(1, 4), Num(1, 4)>> }

Next ==
    \/ Opening({"a.png"}, MaxInFlight)
    \/ Applying(MaxInFlight)
    \/ Editing(MaxEdits)
    \/ Stroking(CoarsePoints, MaxEdits)
    \/ SetTool("pixelate")

Spec == Init /\ [][Next]_vars

NextRequests ==
    \/ Opening(Paths, MaxOutstanding)
    \/ Applying(MaxOutstanding)
    \/ Exporting(MaxOutstanding)
    \/ RotateRight
    \/ ToggleGrayscale

SpecRequests == Init /\ [][NextRequests]_vars

\* pointer positions of SpecPaint's moves: inside and outside the image
MovePoints == { <<Num(3, 4), Num(1, 2)>>, <<Num(3, 2), Num(1, 4)>> }

NextPaint ==
    \/ Opening({"a.png"}, 1)
    \/ \E t \in {"pixelate", "select"} : SetTool(t)
    \/ Painting(PaintPoints, MovePoints, MaxStrokes, MaxPoints)

SpecPaint == Init /\ [][NextPaint]_vars

\* pointer displacements of SpecCrop, as fractions of the canvas rectangle
CropDeltas == { <<Num(-1, 2), Num(-1, 4)>>, <<I(1), I(1)>>, <<I(-2), I(2)>> }

NextCrop ==
    \/ Opening({"a.png"}, 1)
    \/ SetTool("crop")
    \/ Dragging(CropTargets, CropDeltas, MaxDrags)
    \/ Framing({<<1, 1>>, <<16, 9>>}, MaxDrags)

SpecCrop == Init /\ [][NextCrop]_vars

NextSession ==
    \/ Opening({"a.png"}, 1)
    \/ Applying(1)
    \/ RotateRight
    \/ SetTool("crop")
    \/ Dragging({"se", "crop-rect"}, {<<Num(-1, 2), Num(-1, 4)>>}, MaxDrags)

SpecSession == Init /\ [][NextSession]_vars

\* the background-removal controls; the eyedropper clicks at a point of `points`
Keying(points) ==
    \/ SetBgEnabled
    \/ \E v \in BgTolerances : SetBgTolerance(v)
    \/ \E p \in points, c \in Colors : MouseDownEyedropper(p, c)

\* pointer positions of SpecExport: inside the canvas and outside it
PickPoints == { <<Num(1, 4), Num(1, 4)>>, <<Num(3, 2), Num(1, 4)>> }

\* exporting with a crop rectangle and a colour key
NextExport ==
    \/ Opening({"a.png"}, 1)
    \/ \E t \in {"crop", "eyedropper"} : SetTool(t)
    \/ Dragging({"se", "crop-rect"}, {<<Num(-1, 2), Num(-1, 4)>>}, MaxDrags)
    \/ Keying(PickPoints)
    \/ Exporting(MaxInFlight)

SpecExport == Init /\ [][NextExport]_vars

\* the brush controls
Brushing ==
    \/ \E v \in BrushSizes : SetBrushSize(v)
    \/ \E v \in BlockSizes : SetBlockSize(v)

\* single strokes under every brush and block size
NextRender ==
    \/ Opening({"a.png"}, 1)
    \/ SetTool("pixelate")
    \/ Brushing
    \/ Stroking(PaintPoints, MaxEdits)

SpecRender == Init /\ [][NextRender]_vars

\* the three gestures under every tool, tool changes between any two mouse events
NextGesture ==
    \/ Opening({"a.png"}, 1)
    \/ \E t \in Tools : SetTool(t)
    \/ MouseDownSelect
    \/ Painting({<<Num(1, 4), Num(1, 4)>>}, {<<Num(3, 4), Num(1, 2)>>}, MaxEdits, MaxPoints)
    \/ Dragging({"se"}, {<<Num(-1, 2), Num(-1, 4)>>}, MaxDrags)

SpecGesture == Init /\ [][NextGesture]_vars

\* applyEdits overlapping with edits and with loadImage, the payloads recorded
NextApply ==
    \/ Opening(Paths, MaxOutstanding)
    \/ Applying(MaxOutstanding)
    \/ RotateRight
    \/ ToggleGrayscale

SpecApply == InitApply /\ [][NextApply]_vars

\* the zoom controls, at most n relative steps
Zooming(n) ==
    \/ hist.zooms < n /\ ZoomIn
    \/ hist.zooms < n /\ ZoomOut
    \/ \E deltaY \in WheelDeltas : hist.zooms < n /\ CanvasWheel(deltaY)
    \/ \E v \in SliderZooms : ZoomSlider(v)
    \/ Zoom100
    \/ \E c \in ZoomContainers : ZoomFit(c)

NextZoom ==
    \/ Opening({"a.png"}, 1)
    \/ RotateRight
    \/ Zooming(MaxZooms)

SpecZoom == Init /\ [][NextZoom]_vars

\* opening files against a working recent-files store
NextRecents ==
    \/ Opening(Paths, MaxOutstanding)
    \/ Remembering(MaxOutstanding)

SpecRecents == InitRecents /\ [][NextRecents]_vars

(***************************************************************************)
(* Properties.                                                             *)
(***************************************************************************)
\* a step in which open_image answered and loadImage replaced the session
LoadedStep == Len(openReqs') < Len(openReqs) /\ Len(imgLoads') > Len(imgLoads)

\* a step in which get_applied_path answered and applyEdits replaced the session
AppliedStep == Len(applyReqs') < Len(applyReqs) /\ Len(imgLoads') > Len(imgLoads)

\* a step in which apply_edits or get_applied_path rejected
ApplyFailedStep == Len(applyReqs') < Len(applyReqs) /\ imgLoads' = imgLoads

\* 0 <= x, 0 <= y, x + w <= 1, y + h <= 1, w >= 0.02, h >= 0.02
CropRectOk(st) ==
    /\ Le(I(0), st.cropX)
    /\ Le(I(0), st.cropY)
    /\ Le(Add(st.cropX, st.cropW), I(1))
    /\ Le(Add(st.cropY, st.cropH), I(1))
    /\ Le(Num(2, 100), st.cropW)
    /\ Le(Num(2, 100), st.cropH)

\* C1: after every handleCropDrag, in every drag mode, for every pointer
\* displacement and with the aspect lock on or off, the crop rectangle satisfies
\* 0 <= x, 0 <= y, x + w <= 1, y + h <= 1, w >= 0.02 and h >= 0.02.
C1_CropRectAfterDrag ==
    [][\A d \in CropDeltas :
          ( /\ state.tool = "crop"
            /\ cropDragMode # Null
            /\ cropDragMode' = cropDragMode
            /\ state' = handleCropDrag(state, cropDragMode, cropStartCrop, d[1], d[2]) )
          => CropRectOk(state')]_vars

\* C2: immediately after every stroke commit (the gesture ends while painting) the
\* redo stack is empty, whatever undo and redo events came between the gesture's
\* start, moves and end.
C2_RedoEmptyAfterCommit ==
    [][(state.currentStroke # NullStroke /\ state'.currentStroke = NullStroke)
          => state'.pixelateRedoStack = <<>>]_vars

\* C3: in any state with applied strokes, undoStroke followed at once by redoStroke
\* restores the applied strokes exactly (same strokes, order, points and radius)
\* and leaves the redo stack as it was before the undo.
C3_UndoRedoRoundTrip ==
    Len(state.pixelateStrokes) > 0 =>
        LET back == redoStroke(undoStroke(state))
        IN  /\ back.pixelateStrokes = state.pixelateStrokes
            /\ back.pixelateRedoStack = state.pixelateRedoStack

\* C3 witness: a stroke is applied and a different stroke has been undone
C3_Witness ==
    /\ Len(state.pixelateStrokes) > 0
    /\ Len(state.pixelateRedoStack) > 0
    /\ Last(state.pixelateStrokes) # Last(state.pixelateRedoStack)

\* apply_edits / get_applied_path and export_image round trips awaiting their answer
Outstanding ==
    Len(applyReqs)
    + Cardinality({i \in DOMAIN exportReqs : exportReqs[i].phase = "export_image"})

\* C4: at most one apply or export round trip is outstanding at any time; while
\* one is in flight a further apply or export trigger issues no request.
C4_OneRoundTripOutstanding == Outstanding <= 1

\* C5: a failed apply round trip (apply_edits or get_applied_path rejects) changes
\* no field of the edit state or of the image session.
C5_ApplyFailureChangesNothing ==
    [][ApplyFailedStep => (state' = state /\ loadedImage' = loadedImage)]_vars

\* C5 witness: an apply has failed and the edits it was to apply are still pending
C5_Witness ==
    /\ toast = "Apply failed"
    /\ hasEdits(state)
    /\ state.sourcePath # Null
    /\ applyReqs = <<>>

\* C6: an export, whether it succeeds, fails or is cancelled at the save dialog,
\* leaves the image session and every edit state field unchanged.
C6_ExportChangesNothing ==
    [][exportReqs' # exportReqs => (state' = state /\ loadedImage' = loadedImage)]_vars

\* C6 witness: an export has succeeded and the session still has its pending edits
C6_Witness ==
    /\ toast = "Exported"
    /\ state.rotation # 0
    /\ state.grayscale
    /\ exportReqs = <<>>

\* C7: after a successful apply the crop-target width and height equal the natural
\* width and height the apply response reported.
C7_TargetIsNaturalAfterApply ==
    [][AppliedStep => ( /\ state'.targetWidth = I(state'.imageWidth)
                        /\ state'.targetHeight = I(state'.imageHeight) )]_vars

\* rotation, flips, grayscale, brightness, contrast and both stroke sequences at
\* their defaults
EditsAtDefaults(st) ==
    /\ st.rotation = 0
    /\ ~st.flipH
    /\ ~st.flipV
    /\ ~st.grayscale
    /\ st.brightness = I(0)
    /\ st.contrast = I(0)
    /\ st.pixelateStrokes = <<>>
    /\ st.pixelateRedoStack = <<>>

\* C8: after every successful open and every successful apply, rotation, flips,
\* grayscale, brightness, contrast are at their defaults and the applied and redo
\* stroke sequences are empty.
C8_DefaultsAfterOpenOrApply ==
    [][(LoadedStep \/ AppliedStep) => EditsAtDefaults(state')]_vars

\* C8 witness: an apply has succeeded, its image is yet to load, the edits are at
\* their defaults
C8_Witness ==
    /\ toast = "Adjustments applied"
    /\ state.sourcePath \in AppliedPaths
    /\ Len(imgLoads) = 1
    /\ imgLoads[1].kind = "apply"
    /\ EditsAtDefaults(state)

\* C9: whenever a successful open or a successful apply creates a new image
\* session, the crop rectangle is reset to the full frame (0, 0, 1, 1).
C9_FullFrameOnNewSession ==
    [][(LoadedStep \/ AppliedStep) =>
          ( /\ state'.cropX = I(0) /\ state'.cropY = I(0)
            /\ state'.cropW = I(1) /\ state'.cropH = I(1) )]_vars

\* C10: no stroke captured against a replaced image session is in the applied or
\* redo sequence of the new session, a stroke in progress when the open or apply
\* answer arrived included.
C10_NoStaleStroke ==
    /\ \A i \in DOMAIN state.pixelateStrokes : ~state.pixelateStrokes[i].stale
    /\ \A i \in DOMAIN state.pixelateRedoStack : ~state.pixelateRedoStack[i].stale

\* a step of onCanvasMouseMove that pushed a point on the stroke in progress
PaintMoveStep ==
    /\ state.currentStroke # NullStroke
    /\ Len(state'.currentStroke.points) = Len(state.currentStroke.points) + 1
    /\ Pop(state'.currentStroke.points) = state.currentStroke.points

\* C11: while a paint gesture is active the stroke in progress is not in the applied
\* sequence: a pointer move (with its live preview) leaves the applied sequence as
\* it was, and the stroke enters the applied sequence only when the gesture ends.
C11_StrokeAppliedOnlyAtGestureEnd ==
    [][ /\ PaintMoveStep => state'.pixelateStrokes = state.pixelateStrokes
        /\ ( /\ state.currentStroke # NullStroke
             /\ state'.pixelateRedoStack = state.pixelateRedoStack
             /\ Len(state'.pixelateStrokes) > Len(state.pixelateStrokes) )
           => ( /\ state'.currentStroke = NullStroke
                /\ ~state'.isPixelatePainting
                /\ state'.pixelateStrokes
                       = Append(state.pixelateStrokes, state.currentStroke) ) ]_vars

\* C11 witness: a gesture is active with a stroke of two points, after a move, and
\* the applied sequence holds another stroke
C11_Witness ==
    /\ state.isPixelatePainting
    /\ Len(state.currentStroke.points) = 2
    /\ Len(state.pixelateStrokes) = 1
    /\ state.pixelateStrokes[1] # state.currentStroke

\* C12: with the aspect lock on, after every handleCropDrag with a resize handle the
\* crop rectangle has width / height = targetWidth / targetHeight, also when the
\* drag pushes the computed width or height past the [0.02, 1] clamp.
C12_LockedAspectAfterDrag ==
    [][\A d \in CropDeltas :
          ( /\ state.tool = "crop"
            /\ cropDragMode \in CropHandles
            /\ cropDragMode' = cropDragMode
            /\ state.lockAspect
            /\ state' = handleCropDrag(state, cropDragMode, cropStartCrop, d[1], d[2]) )
          => Div(state'.cropW, state'.cropH)
                 = Div(state'.targetWidth, state'.targetHeight)]_vars

\* C13: selecting an aspect preset from a valid crop rectangle leaves a rectangle
\* with 0 <= x, 0 <= y, x + w <= 1, y + h <= 1, w >= 0.02 and h >= 0.02, and
\* neither its width nor its height has grown.
C13_PresetKeepsCropRect ==
    [][\A preset \in PresetRatios :
          ( /\ CropRectOk(state)
            /\ hist'.drags = hist.drags + 1
            /\ cropDragMode' = cropDragMode
            /\ state' = onCropPresetChange(state, preset, cropInputs.w) )
          => ( /\ CropRectOk(state')
               /\ Le(state'.cropW, state.cropW)
               /\ Le(state'.cropH, state.cropH) )]_vars

\* the elements of a sequence
Range(s) == {s[i] : i \in DOMAIN s}

\* C14: once every addToRecents call made by a successful open has completed
\* both of its round trips, whatever their interleaving, the persisted list
\* starts with the path opened last, holds no path twice, holds every one of
\* the last opened distinct paths up to the cap, and has at most 10 entries.
C14_RecentsAfterOpens ==
    (recentFiles # Unavailable /\ recentReqs = <<>> /\ ~hist.failed /\ hist.opened # <<>>)
        => /\ recentFiles # <<>>
           /\ recentFiles[1] = hist.opened[1]
           /\ Cardinality(Range(recentFiles)) = Len(recentFiles)
           /\ Range(hist.opened) \subseteq Range(recentFiles)
           /\ Len(recentFiles) <= RecentsCap

\* a step in which open_image rejected
OpenFailedStep == Len(openReqs') < Len(openReqs) /\ imgLoads' = imgLoads

\* C15: when open_image fails, loadImage changes nothing: the source path, the
\* natural dimensions, the edit state, the displayed image and the recent-files
\* list (persisted or being updated) are what they were.
C15_OpenFailureChangesNothing ==
    [][OpenFailedStep => /\ state' = state
                         /\ loadedImage' = loadedImage
                         /\ cropInputs' = cropInputs
                         /\ recentFiles' = recentFiles
                         /\ recentReqs' = recentReqs]_vars

\* C15 witness: an open has failed while an image is open and remembered
C15_Witness ==
    /\ toast = "Failed to open image"
    /\ state.sourcePath # Null
    /\ loadedImage # Null
    /\ recentFiles # <<>>
    /\ Pending = 0

\* C16: in every reachable state the zoom factor lies in [0.1, 5], whatever
\* zoom-in, zoom-out, wheel, slider, 100% and fit operations were made.
C16_ZoomInRange == Le(Num(1, 10), state.zoom) /\ Le(state.zoom, I(5))

\* C16 witness: relative zoom steps have run into the upper limit
C16_Witness == state.zoom = I(5) /\ hist.zooms > 0

\* a step of zoomFit with an image loaded, in a container of size c
ZoomFitStep(c) ==
    /\ loadedImage # Null
    /\ loadedImage' = loadedImage
    /\ state' = zoomFit(state, c)
    /\ inflight' = inflight

\* min((containerW - 40) / dispW, (containerH - 40) / dispH, 1)
fitScale(st, c) ==
    MathMin(MathMin(Div(I(c.w - 40), I(displayW(st))),
                    Div(I(c.h - 40), I(displayH(st)))), I(1))

\* C17: for every container size, loaded image and rotation, zoomFit resets pan
\* to (0, 0) and sets zoom to min((containerW - 40) / dispW,
\* (containerH - 40) / dispH, 1), so that afterwards zoom <= 1 and the displayed
\* image, scaled by zoom, is at most containerW - 40 wide and containerH - 40 high.
C17_ZoomFitFits ==
    [][\A c \in ZoomContainers :
          ZoomFitStep(c) =>
              /\ state'.panX = 0 /\ state'.panY = 0
              /\ state'.zoom = fitScale(state, c)
              /\ Le(state'.zoom, I(1))
              /\ Le(Mul(I(displayW(state')), state'.zoom), I(c.w - 40))
              /\ Le(Mul(I(displayH(state')), state'.zoom), I(c.h - 40))]_vars

\* a step in which the save dialog answered and request i went to export_image
ExportSendStep(i) ==
    /\ i \in DOMAIN exportReqs
    /\ exportReqs[i].phase = "dialog"
    /\ exportReqs' = [exportReqs EXCEPT ![i].phase = "export_image"]

\* x > 0 or y > 0 or w < 1 or h < 1
notFullFrame(st) ==
    Lt(I(0), st.cropX) \/ Lt(I(0), st.cropY) \/ Lt(st.cropW, I(1)) \/ Lt(st.cropH, I(1))

\* C18: the export request carries a crop exactly when the crop rectangle differs
\* from the full frame (x > 0 or y > 0 or w < 1 or h < 1), and then the crop is
\* the crop rectangle of the edit state; for the full frame it carries no crop.
C18_ExportCrop ==
    [][\A i \in DOMAIN exportReqs, outputPath \in OutputPaths :
          ExportSendStep(i) =>
              LET crop == exportRequest(i, outputPath).crop
              IN  /\ (crop # NoCrop) <=> notFullFrame(state)
                  /\ notFullFrame(state) =>
                         crop = [x |-> state.cropX, y |-> state.cropY,
                                 width |-> state.cropW, height |-> state.cropH]]_vars

\* C18 witness: a request is with export_image while the rectangle is cropped
C18_Witness ==
    /\ \E i \in DOMAIN exportReqs : exportReqs[i].phase = "export_image"
    /\ notFullFrame(state)
    /\ cropDragMode = Null

\* bg_removal: null
NoBgRemoval == [enabled |-> FALSE, color |-> <<0, 0, 0>>, tolerance |-> NaN]

\* C19: the export request carries background-removal parameters exactly when the
\* enabled flag is set; then its tolerance is the slider's value in [0, 100]
\* divided by 100, a fraction in [0, 1], and its colour the picked colour of the
\* edit state; with the flag clear it carries none.
C19_ExportBgRemoval ==
    [][\A i \in DOMAIN exportReqs, outputPath \in OutputPaths :
          ExportSendStep(i) =>
              LET bg == exportRequest(i, outputPath).bg_removal
              IN  /\ (bg # NoBgRemoval) <=> state.bgEnabled
                  /\ state.bgEnabled =>
                         /\ bg.tolerance = Div(I(state.bgTolerance), I(100))
                         /\ Le(I(0), bg.tolerance) /\ Le(bg.tolerance, I(1))
                         /\ bg.color = state.bgColor]_vars

\* C19 witness: a request is with export_image while the key is enabled with a
\* picked colour and the tolerance at the top of its scale
C19_Witness ==
    /\ \E i \in DOMAIN exportReqs : exportReqs[i].phase = "export_image"
    /\ state.bgEnabled
    /\ state.bgTolerance = 100
    /\ state.bgColor = <<255, 0, 0>>

\* the image is loaded and the only stroke applied has a single point
SinglePointStroke(st) ==
    /\ loadedImage # Null
    /\ Pending = 0
    /\ st.rotation = 0
    /\ Len(st.pixelateStrokes) = 1
    /\ Len(st.pixelateStrokes[1].points) = 1

\* [max(0, cx - r), min(W, cx + r)) x [max(0, cy - r), min(H, cy + r)) of the
\* only point
pointBox(st) ==
    strokeBox(st.pixelateStrokes[1].points[1], st.pixelateStrokes[1].radius,
              displayW(st), displayH(st))

\* the cells of side blockSize that partition a box, as sets of pixel indexes;
\* the cells at the right and bottom edges are clipped
cellsOf(box, blockSize, dw) ==
    IF box.x1 < box.x2 /\ box.y1 < box.y2
    THEN { { py * dw + px :
               px \in (box.x1 + i * blockSize)
                          ..(IntMin(box.x1 + (i + 1) * blockSize, box.x2) - 1),
               py \in (box.y1 + j * blockSize)
                          ..(IntMin(box.y1 + (j + 1) * blockSize, box.y2) - 1) } :
             i \in 0..((box.x2 - box.x1 - 1) \div blockSize),
             j \in 0..((box.y2 - box.y1 - 1) \div blockSize) }
    ELSE {}

\* m is sum / count rounded to the nearest integer, halves upwards
isRoundedMean(m, sum, count) ==
    2 * count * m <= 2 * sum + count /\ 2 * sum + count < 2 * count * (m + 1)

\* C20: rendering a single-point stroke partitions the point's bounding box into
\* cells of side blockSize (edge cells clipped); afterwards every cell is uniform,
\* each of its four channels being the rounded mean of the cell's original pixels.
\* A 40x40 box on a 100x100 surface with blockSize 10 has exactly 16 cells.
C20_BlockAveraging ==
    /\ SinglePointStroke(state) =>
           LET dw == displayW(state)
               original == drawImage(dw, displayH(state))
               rendered == renderCanvas(state)
           IN  \A cell \in cellsOf(pointBox(state), state.pixelateBlockSize, dw) :
                   \A i \in cell, ch \in 1..4 :
                       isRoundedMean(rendered[i][ch], channelSum(original, cell, ch),
                                     Cardinality(cell))
    /\ Len(blocks(strokeBox(<<Num(1, 2), Num(1, 2)>>, Num(20, 100), 100, 100), 10)) = 16

\* C20 witness: a single-point stroke whose box has several cells, one of them
\* clipped, and whose rendering changed the picture
C20_Witness ==
    /\ SinglePointStroke(state)
    /\ state.pixelateBlockSize = 3
    /\ Cardinality(cellsOf(pointBox(state), 3, displayW(state))) > 1
    /\ renderCanvas(state) # drawImage(displayW(state), displayH(state))

\* C21: block averaging is idempotent for a fixed cell partition: rendering the
\* same single-point stroke (same point, radius and block size) a second time on
\* the surface it has already averaged changes no pixel.
C21_AveragingIdempotent ==
    SinglePointStroke(state) =>
        LET dw == displayW(state)
            dh == displayH(state)
            once == renderCanvas(state)
        IN  drawPixelatePreview(once, dw, dh, state.pixelateStrokes,
                                state.pixelateBlockSize) = once

\* C21 witness: a single-point stroke whose one block covers the whole picture and
\* whose first rendering changed it
C21_Witness ==
    /\ SinglePointStroke(state)
    /\ state.pixelateBlockSize = 10
    /\ state.pixelateBrushSize = 20
    /\ renderCanvas(state) # drawImage(displayW(state), displayH(state))

\* C22: in every reachable state the rotation is 0, 90, 180 or 270, whatever
\* rotate-left, rotate-right, open and apply operations were made.
C22_RotationNormalized == state.rotation \in {0, 90, 180, 270}

\* C22 witness: an image is open and rotate-left has wrapped from 0 to 270
C22_Witness == state.rotation = 270 /\ loadedImage # Null

\* background removal off with the default colour and tolerance, the default block
\* size, the aspect lock off
OtherFieldsAtDefaults(st) ==
    /\ st.bgEnabled = InitState.bgEnabled
    /\ st.bgColor = InitState.bgColor
    /\ st.bgTolerance = InitState.bgTolerance
    /\ st.pixelateBlockSize = InitState.pixelateBlockSize
    /\ st.lockAspect = InitState.lockAspect

\* C23: whenever a new image session is created (a successful open or a successful
\* apply) the background-removal parameters, the pixelation block size and the
\* aspect lock are back at their defaults.
C23_OtherDefaultsOnNewSession ==
    [][(LoadedStep \/ AppliedStep) => OtherFieldsAtDefaults(state')]_vars

\* x, y, w, h of the crop rectangle
cropRect(st) == <<st.cropX, st.cropY, st.cropW, st.cropH>>

\* C24: apart from the reset on a new image session, the crop rectangle changes
\* only in a step taken while a crop-drag gesture is active; no operation made
\* while idle (a click elsewhere, a preset or target-size change, zoom, pan, paint,
\* undo, redo) changes x, y, w or h.
C24_CropChangesOnlyWhileDragging ==
    [][(cropDragMode = Null /\ ~LoadedStep /\ ~AppliedStep)
           => cropRect(state') = cropRect(state)]_vars

\* every point of the strokes ss has both coordinates in [0, 1]
PointsInBounds(ss) ==
    \A i \in DOMAIN ss : \A k \in DOMAIN ss[i].points : inBounds(ss[i].points[k])

\* C25: every point of every stroke (in progress, applied or undone) has both
\* coordinates in [0, 1]: a gesture starts only at a point inside the image, and a
\* pointer move outside it appends nothing and does not end the gesture, which
\* ends only by being committed.
C25_StrokePointsInBounds ==
    [][ /\ PointsInBounds(<<state'.currentStroke>>)
        /\ PointsInBounds(state'.pixelateStrokes)
        /\ PointsInBounds(state'.pixelateRedoStack)
        /\ (state.isPixelatePainting /\ ~state'.isPixelatePainting)
               => state'.pixelateStrokes
                      = Append(state.pixelateStrokes, state.currentStroke) ]_vars

\* C25 witness: the first gesture is active and a move has added a second point
C25_Witness ==
    /\ state.isPixelatePainting
    /\ Len(state.currentStroke.points) = 2
    /\ state.pixelateStrokes = <<>>
    /\ state.pixelateRedoStack = <<>>

\* a pan-drag, a crop-drag or a paint gesture is active
panActive == isDragging

cropActive == cropDragMode # Null

paintActive == state.isPixelatePainting

\* a step that ends a gesture: onCanvasMouseUp, on mouseup or on mouseleave
ReleaseStep ==
    \/ isDragging /\ ~isDragging'
    \/ cropDragMode # Null /\ cropDragMode' = Null
    \/ state.isPixelatePainting /\ ~state'.isPixelatePainting

\* C26: pointer release and pointer leaving the container run the same handler:
\* afterwards no pan-drag, crop-drag or paint gesture is active, and a stroke that
\* was in progress is the last applied stroke, with exactly the points captured so
\* far, whatever tool is selected.
C26_ReleaseEndsEveryGesture ==
    [][ReleaseStep =>
          /\ ~isDragging'
          /\ cropDragMode' = Null
          /\ ~state'.isPixelatePainting
          /\ state'.currentStroke = NullStroke
          /\ state.currentStroke # NullStroke =>
                 state'.pixelateStrokes = Append(state.pixelateStrokes, state.currentStroke)]_vars

\* C26 witness: after a crop-drag was started, a stroke of two points stands
\* committed under another tool than pixelate and no gesture is active
C26_Witness ==
    /\ state.tool # "pixelate"
    /\ Len(state.pixelateStrokes) = 1
    /\ Len(state.pixelateStrokes[1].points) = 2
    /\ state.currentStroke = NullStroke
    /\ ~isDragging /\ cropDragMode = Null /\ ~state.isPixelatePainting
    /\ hist.drags > 0

\* C27: at most one gesture (pan-drag, crop-drag, paint stroke) is active at any
\* time, however tool changes interleave with mouse down, move and up events.
C27_OneGestureAtATime ==
    /\ ~(panActive /\ cropActive)
    /\ ~(panActive /\ paintActive)
    /\ ~(cropActive /\ paintActive)

\* the edits the reset of applyEdits discards, and the same edits as a payload holds them
resetEdits(st) ==
    <<st.rotation, st.flipH, st.flipV, st.grayscale, st.brightness, st.contrast,
      st.pixelateStrokes>>

sentEdits(p) ==
    <<p.rotation, p.flip_h, p.flip_v, p.grayscale, p.brightness, p.contrast,
      p.pixelate_strokes>>

\* a step in which the apply request i, its payload recorded, replaces the session
AppliedStepOf(i) ==
    /\ hist.recording
    /\ applyReqs[i].phase = "get_applied_path"
    /\ AppliedStep
    /\ applyReqs' = RemoveAt(applyReqs, i)
    /\ hist'.sent = RemoveAt(hist.sent, i)

\* C28: every pending edit that a successful apply resets was part of the apply
\* request: the edits discarded by the reset after the response are the edits the
\* request carried, none made while the round trip was in flight.
C28_ResetEditsWereSent ==
    [][\A i \in DOMAIN applyReqs :
           AppliedStepOf(i) => resetEdits(state) = sentEdits(hist.sent[i])]_vars

\* C29: once no open request and no image load is outstanding, the displayed image
\* is the one answered for the current source path and natural dimensions, in
\* whatever order the open_image answers and the onload callbacks arrived.
C29_PreviewMatchesSession ==
    (Pending = 0 /\ state.sourcePath \in Paths) =>
        \E info \in ImageInfos :
            /\ info.width = state.imageWidth
            /\ info.height = state.imageHeight
            /\ info.data_url = loadedImage

\* C30: the response to an apply request issued against one Image Session leaves a
\* later session alone: if another image was opened while the apply was in flight,
\* the response changes neither source path, natural dimensions nor edits.
C30_LateApplyKeepsNewSession ==
    [][\A i \in DOMAIN applyReqs :
           ( /\ AppliedStepOf(i)
             /\ state.sourcePath \in Paths
             /\ state.sourcePath # hist.sent[i].source_path )
           => /\ state'.sourcePath = state.sourcePath
              /\ state'.imageWidth = state.imageWidth
              /\ state'.imageHeight = state.imageHeight
              /\ resetEdits(state') = resetEdits(state)]_vars

====
